---------------------------- MODULE Spec2Model ----------------------------
(***************************************************************************)
(* The commission-statement front end (src/app/static/js/app.js): the      *)
(* session state, every event handler and async continuation, and the      *)
(* column matcher findBestMatch.                                           *)
(*                                                                         *)
(* JavaScript values.  A string is the tuple of its characters, so that    *)
(* toLowerCase, includes and trim are computed character by character.     *)
(* null, undefined and a thrown TypeError are one-element tuples whose     *)
(* element is a word, which no string (a tuple of single characters) is.   *)
(***************************************************************************)
EXTENDS Integers, Sequences, FiniteSets, TLC

null == <<"null">>
undefined == <<"undefined">>
TypeError == <<"TypeError">>

\* A test that takes the empty string for a value.
NotNullish(v) == v # undefined /\ v # null

\* JavaScript truthiness of a string-or-undefined value: the empty string,
\* null and undefined are falsy.
Truthy(v) == v # undefined /\ v # null /\ v # <<>>

UpperCaseLetters ==
  <<"A","B","C","D","E","F","G","H","I","J","K","L","M",
    "N","O","P","Q","R","S","T","U","V","W","X","Y","Z">>
LowerCaseLetters ==
  <<"a","b","c","d","e","f","g","h","i","j","k","l","m",
    "n","o","p","q","r","s","t","u","v","w","x","y","z">>

\* String.prototype.toLowerCase
toLowerCase(s) ==
  [i \in 1..Len(s) |->
     IF \E k \in 1..26 : UpperCaseLetters[k] = s[i]
     THEN LowerCaseLetters[CHOOSE k \in 1..26 : UpperCaseLetters[k] = s[i]]
     ELSE s[i]]

\* String.prototype.includes: sub occurs in s at some offset (the empty
\* string occurs in every string).
includes(s, sub) ==
  \E i \in 0..(Len(s) - Len(sub)) : SubSeq(s, i + 1, i + Len(sub)) = sub

\* Array.prototype.find: the element at the least of the indices `hits`
\* (those whose element satisfies the callback), else undefined.
find(arr, hits) ==
  IF hits = {} THEN undefined
  ELSE arr[CHOOSE i \in hits : \A j \in hits : i <= j]

\* Template columns (Policy And Transactions Template)
templateColumns ==
  << <<"P","o","l","i","c","y","N","o">>,
     <<"P","H","F","i","r","s","t">>,
     <<"P","H","L","a","s","t">>,
     <<"S","t","a","t","u","s">>,
     <<"I","s","s","u","e","r">>,
     <<"S","t","a","t","e">>,
     <<"P","r","o","d","u","c","t","T","y","p","e">>,
     <<"P","l","a","n","N","a","m","e">>,
     <<"S","u","b","m","i","t","t","e","d","D","a","t","e">>,
     <<"E","f","f","e","c","t","i","v","e","D","a","t","e">>,
     <<"T","e","r","m","D","a","t","e">>,
     <<"P","a","y","S","c","h","e","d">>,
     <<"P","a","y","C","o","d","e">>,
     <<"W","r","i","t","i","n","g","A","g","e","n","t","I","D">>,
     <<"P","r","e","m","i","u","m">>,
     <<"C","o","m","m","P","r","e","m">>,
     <<"T","r","a","n","D","a","t","e">>,
     <<"C","o","m","m","R","e","c","e","i","v","e","d">>,
     <<"P","T","D">>,
     <<"N","o","P","a","y","M","o","n">>,
     <<"M","e","m","b","e","r","C","o","u","n","t">>,
     <<"N","o","t","e">> >>

\* Common mappings
mappings ==
  << << <<"p","o","l","i","c","y","n","o">>,
        << <<"p","o","l","i","c","y">>,
           <<"p","o","l","i","c","y","_","n","u","m","b","e","r">>,
           <<"p","o","l","i","c","y","n","u","m","b","e","r">>,
           <<"p","o","l","_","n","o">>,
           <<"p","o","l","i","c","y","_","n","o">> >> >>,
     << <<"p","h","f","i","r","s","t">>,
        << <<"f","i","r","s","t">>,
           <<"f","i","r","s","t","n","a","m","e">>,
           <<"f","i","r","s","t","_","n","a","m","e">>,
           <<"f","n","a","m","e">>,
           <<"i","n","s","u","r","e","d","_","f","i","r","s","t">> >> >>,
     << <<"p","h","l","a","s","t">>,
        << <<"l","a","s","t">>,
           <<"l","a","s","t","n","a","m","e">>,
           <<"l","a","s","t","_","n","a","m","e">>,
           <<"l","n","a","m","e">>,
           <<"i","n","s","u","r","e","d","_","l","a","s","t">> >> >>,
     << <<"p","r","e","m","i","u","m">>,
        << <<"p","r","e","m">>,
           <<"a","m","o","u","n","t">>,
           <<"p","r","e","m","i","u","m","_","a","m","o","u","n","t">> >> >>,
     << <<"e","f","f","e","c","t","i","v","e","d","a","t","e">>,
        << <<"e","f","f","e","c","t","i","v","e">>,
           <<"e","f","f","_","d","a","t","e">>,
           <<"e","f","f","d","a","t","e">>,
           <<"s","t","a","r","t","_","d","a","t","e">> >> >>,
     << <<"t","e","r","m","d","a","t","e">>,
        << <<"t","e","r","m">>,
           <<"t","e","r","m","i","n","a","t","i","o","n">>,
           <<"e","n","d","_","d","a","t","e">>,
           <<"c","a","n","c","e","l","_","d","a","t","e">> >> >>,
     << <<"c","o","m","m","r","e","c","e","i","v","e","d">>,
        << <<"c","o","m","m","i","s","s","i","o","n">>,
           <<"c","o","m","m">>,
           <<"c","o","m","m","_","a","m","t">>,
           <<"c","o","m","m","i","s","s","i","o","n","_","a","m","o","u","n","t">> >> >>,
     << <<"w","r","i","t","i","n","g","a","g","e","n","t","i","d">>,
        << <<"a","g","e","n","t">>,
           <<"a","g","e","n","t","i","d">>,
           <<"a","g","e","n","t","_","i","d">>,
           <<"w","r","i","t","i","n","g","_","a","g","e","n","t">>,
           <<"p","r","o","d","u","c","e","r">> >> >>,
     << <<"t","r","a","n","d","a","t","e">>,
        << <<"t","r","a","n","s","a","c","t","i","o","n","_","d","a","t","e">>,
           <<"t","r","a","n","s","_","d","a","t","e">>,
           <<"d","a","t","e">> >> >>,
     << <<"s","t","a","t","e">>,
        << <<"s","t">>,
           <<"s","t","a","t","e","_","c","o","d","e">> >> >>,
     << <<"i","s","s","u","e","r">>,
        << <<"c","a","r","r","i","e","r">>,
           <<"c","o","m","p","a","n","y">>,
           <<"i","n","s","u","r","a","n","c","e","_","c","o","m","p","a","n","y">> >> >> >>

\* The names Object.prototype defines that a lowercased key can equal: a
\* lookup mappings[key] on the object literal finds them by inheritance.
ObjectPrototypeKeys ==
  { <<"c","o","n","s","t","r","u","c","t","o","r">>,
    <<"_","_","p","r","o","t","o","_","_">> }

\* mappings[targetLower]: the own property's array, an inherited
\* (non-iterable) value, or undefined.
NotIterable == <<"object">>
mappingsLookup(key) ==
  IF \E i \in 1..Len(mappings) : mappings[i][1] = key
  THEN mappings[CHOOSE i \in 1..Len(mappings) : mappings[i][1] = key][2]
  ELSE IF key \in ObjectPrototypeKeys THEN NotIterable
  ELSE undefined

\* sourceColumns.find(col => col.toLowerCase().includes(mapping))
synonymMatch(mapping, sourceColumns) ==
  find(sourceColumns,
       { i \in 1..Len(sourceColumns) : includes(toLowerCase(sourceColumns[i]), mapping) })

\* A loop over the columns first: the first column, in input order, that
\* contains any of the synonyms.
commonMatchColumnFirst(targetMappings, sourceColumns) ==
  find(sourceColumns,
       { i \in 1..Len(sourceColumns) :
           \E k \in 1..Len(targetMappings) :
             includes(toLowerCase(sourceColumns[i]), targetMappings[k]) })

\* The loop over the synonyms (for ... of targetMappings): the first synonym,
\* in table order, that some column contains; that column, first in input
\* order.
commonMatch(targetMappings, sourceColumns) ==
  IF \E k \in 1..Len(targetMappings) :
       Truthy(synonymMatch(targetMappings[k], sourceColumns))
  THEN synonymMatch(
         targetMappings[CHOOSE k \in 1..Len(targetMappings) :
            /\ Truthy(synonymMatch(targetMappings[k], sourceColumns))
            /\ \A j \in 1..(k - 1) :
                 ~Truthy(synonymMatch(targetMappings[j], sourceColumns))],
         sourceColumns)
  ELSE null

\* A matcher that tries the substring match before the exact match.
findBestMatchPartialFirst(targetCol, sourceColumns) ==
  LET targetLower == toLowerCase(targetCol)
      exact == find(sourceColumns,
                    { i \in 1..Len(sourceColumns) :
                        toLowerCase(sourceColumns[i]) = targetLower })
      partial == find(sourceColumns,
                      { i \in 1..Len(sourceColumns) :
                          \/ includes(toLowerCase(sourceColumns[i]), targetLower)
                          \/ includes(targetLower, toLowerCase(sourceColumns[i])) })
  IN  IF Truthy(partial) THEN partial
      ELSE IF Truthy(exact) THEN exact
      ELSE null

\* findBestMatch: the exact match, else the substring match, else the first
\* synonym of the target that some column contains, else null.  `if (exact)'
\* and `if (partial)' test truthiness, so an empty match falls through.
findBestMatch(targetCol, sourceColumns) ==
  LET targetLower == toLowerCase(targetCol)
      exact == find(sourceColumns,
                    { i \in 1..Len(sourceColumns) :
                        toLowerCase(sourceColumns[i]) = targetLower })
      partial == find(sourceColumns,
                      { i \in 1..Len(sourceColumns) :
                          \/ includes(toLowerCase(sourceColumns[i]), targetLower)
                          \/ includes(targetLower, toLowerCase(sourceColumns[i])) })
      targetMappings == mappingsLookup(targetLower)
  IN  IF Truthy(exact) THEN exact
      ELSE IF Truthy(partial) THEN partial
      ELSE IF targetMappings = undefined THEN null
      ELSE IF targetMappings = NotIterable THEN TypeError
      ELSE commonMatch(targetMappings, sourceColumns)

\* String.prototype.trim, over the space character.
RECURSIVE trimStart(_)
trimStart(s) == IF s # <<>> /\ Head(s) = " " THEN trimStart(Tail(s)) ELSE s
RECURSIVE trimEnd(_)
trimEnd(s) ==
  IF s # <<>> /\ s[Len(s)] = " " THEN trimEnd(SubSeq(s, 1, Len(s) - 1)) ELSE s
\* A trim that removes nothing.
trimNothing(s) == s
trim(s) == trimEnd(trimStart(s))

(***************************************************************************)
(* The inputs: the files the operator drops, and what the server answers.  *)
(***************************************************************************)
MaxUploads == 2     \* uploads started in one run
MaxConfirms == 2    \* clicks on the confirm-carrier button
MaxProcesses == 1   \* clicks on the process button
MaxResets == 1      \* clicks on a cancel or new-upload button
MaxOverrides == 1   \* changes of a mapping select by the operator
MaxOverrideField == 1 \* the first template columns the operator may change
MaxCandidates == 2  \* length of the candidate lists given to findBestMatch

Acme == <<"A","c","m","e">>
Beta == <<"B","e","t","a">>
NewOption == <<"_","_","n","e","w","_","_">>

AcmeColumns ==
  << <<"P","o","l","i","c","y"," ","#">>, <<"F","i","r","s","t">>, <<"L","a","s","t">>, <<"P","r","e","m"," ","A","m","t">> >>
BetaColumns ==
  << <<"P","o","l","i","c","y","_","N","u","m","b","e","r">>, <<"A","g","e","n","t">> >>

Files == {"acme.xlsx", "beta.xlsx"}

\* Object references: null and undefined where the code holds an object.
nullRef == [ref |-> "null"]
undefinedRef == [ref |-> "undefined"]

\* The /api/upload response body for a file: the first file is of an unknown
\* carrier, the second is recognized (as a listed or as an unlisted carrier)
\* and detected as a chargeback file.
uploadData(f, recognized) ==
  [ filename |-> f,
    saved_filename |-> IF f = "acme.xlsx" THEN "saved_acme.xlsx" ELSE "saved_beta.xlsx",
    columns |-> IF f = "acme.xlsx" THEN AcmeColumns ELSE BetaColumns,
    known_carriers |-> {Acme},
    configured_carriers |-> {},
    recognized_carrier |-> recognized,
    detected_file_type |-> IF f = "acme.xlsx" THEN "" ELSE "chargeback" ]
Recognized(f) == IF f = "acme.xlsx" THEN {null} ELSE {Acme, Beta}

\* The source column set of the upload a saved filename identifies.
ColumnsOfSaved(s) ==
  IF s = "saved_acme.xlsx" THEN AcmeColumns
  ELSE IF s = "saved_beta.xlsx" THEN BetaColumns
  ELSE <<>>

\* The message of a failed request or of an error body.
ErrorMessages == {"boom"}
\* What the operator may type as a new carrier name.
TypedNames == { <<>>, <<" ">>, <<" ","A","c","m","e"," ">> }
\* The output lists /api/available-outputs may report.
OutputLists ==
  { <<>>,
    <<[type |-> "commission", name |-> "Commission"]>>,
    <<[type |-> "commission", name |-> "Commission"],
      [type |-> "chargeback", name |-> "Chargeback"]>> }

(***************************************************************************)
(* State.                                                                  *)
(***************************************************************************)
VARIABLES
  \* the script's globals
  currentFile, currentColumns, savedFilename, carrierName, fileType,
  hasTransformer, availableOutputs, exportResults,
  \* the page: which sections are shown, the carrier dialog, the mapping grid
  loading, previewSection, exportSection, carrierModal, mappingSection,
  carrierNameSelect, newCarrierInput, fileTypeSelect, mappingGrid,
  \* the async functions suspended at an await
  inflight,
  \* what the last step did: its kind, the request it sent, the alert it showed
  event, sent, alerted,
  \* history: the operator's mapping, the uploads and confirmations completed
  operatorMapping, uploaded, confirmed,
  \* how many of each operator action have happened
  nUploads, nConfirms, nProcesses, nResets, nOverrides,
  \* the matcher called on its own
  matchTarget, matchCandidates, matchResult

globals == <<currentFile, currentColumns, savedFilename, carrierName, fileType,
             hasTransformer, availableOutputs, exportResults>>
page == <<loading, previewSection, exportSection, carrierModal, mappingSection,
          carrierNameSelect, newCarrierInput, fileTypeSelect, mappingGrid>>
history == <<operatorMapping, uploaded, confirmed>>
counters == <<nUploads, nConfirms, nProcesses, nResets, nOverrides>>
matcher == <<matchTarget, matchCandidates, matchResult>>
vars == <<globals, page, inflight, event, sent, alerted, history, counters, matcher>>

NoRequest == [url |-> "none"]
NoAlert == [text |-> "none"]
NoGrid == [columns |-> <<>>, value |-> <<>>]
NoOverride == <<>>


Init ==
  /\ currentFile = nullRef
  /\ currentColumns = <<>>
  /\ savedFilename = ""
  /\ carrierName = <<>>
  /\ fileType = "commission"
  /\ hasTransformer = "false"
  /\ availableOutputs = <<>>
  /\ exportResults = <<>>
  /\ loading = FALSE
  /\ previewSection = FALSE
  /\ exportSection = FALSE
  /\ carrierModal = FALSE
  /\ mappingSection = FALSE
  /\ carrierNameSelect = [options |-> {}, value |-> <<>>]
  /\ newCarrierInput = <<>>
  /\ fileTypeSelect = "commission"
  /\ mappingGrid = NoGrid
  /\ inflight = <<>>
  /\ event = "load"
  /\ sent = NoRequest
  /\ alerted = NoAlert
  /\ operatorMapping = NoOverride
  /\ uploaded = {}
  /\ confirmed = {}
  /\ nUploads = 0
  /\ nConfirms = 0
  /\ nProcesses = 0
  /\ nResets = 0
  /\ nOverrides = 0
  /\ matchTarget = <<>>
  /\ matchCandidates = <<>>
  /\ matchResult = undefined

\* The calls suspended at a fetch of the given url.
Awaiting(url) == { i \in 1..Len(inflight) : inflight[i].await = url }
\* The suspended calls without the i-th, which resumes.
Resume(i) == SubSeq(inflight, 1, i - 1) \o SubSeq(inflight, i + 1, Len(inflight))

(***************************************************************************)
(* uploadFile                                                              *)
(***************************************************************************)
\* handleDrop / handleFileSelect: uploadFile(file) up to its fetch.
uploadFile(file) ==
  /\ nUploads < MaxUploads
  /\ nUploads' = nUploads + 1
  /\ currentFile' = [ref |-> "file", name |-> file, previewData |-> undefinedRef]
  /\ loading' = TRUE
  /\ sent' = [url |-> "/api/upload", file |-> file]
  /\ inflight' = Append(inflight, [await |-> "/api/upload", req |-> sent'])
  /\ event' = "uploadFile"
  /\ alerted' = NoAlert
  /\ operatorMapping' = NoOverride
  /\ UNCHANGED <<currentColumns, savedFilename, carrierName, fileType,
                 hasTransformer, availableOutputs, exportResults>>
  /\ UNCHANGED <<previewSection, exportSection, carrierModal, mappingSection,
                 carrierNameSelect, newCarrierInput, fileTypeSelect, mappingGrid>>
  /\ UNCHANGED <<uploaded, confirmed, nConfirms, nProcesses, nResets, nOverrides>>
  /\ UNCHANGED matcher

\* populateCarrierDropdown: the select's options and its value.
populateCarrierDropdown(carriers, recognizedCarrier) ==
  [ options |-> carriers,
    value |-> IF Truthy(recognizedCarrier) /\ recognizedCarrier \in carriers
              THEN recognizedCarrier ELSE <<>> ]

\* The fetch or response.json() rejects: the catch block.
uploadFileCatch(i, message) ==
  /\ i \in Awaiting("/api/upload")
  /\ message \in ErrorMessages
  /\ inflight' = Resume(i)
  /\ loading' = FALSE
  /\ alerted' = [text |-> "Error uploading file: ", message |-> message]
  /\ event' = "uploadFile:catch"
  /\ sent' = NoRequest
  /\ UNCHANGED globals
  /\ UNCHANGED <<previewSection, exportSection, carrierModal, mappingSection,
                 carrierNameSelect, newCarrierInput, fileTypeSelect, mappingGrid>>
  /\ UNCHANGED <<history, counters, matcher>>

\* The response carries an error.
uploadFileError(i, message) ==
  /\ i \in Awaiting("/api/upload")
  /\ message \in ErrorMessages
  /\ inflight' = Resume(i)
  /\ loading' = FALSE
  /\ alerted' = [text |-> "Error: ", message |-> message]
  /\ event' = "uploadFile:error"
  /\ sent' = NoRequest
  /\ UNCHANGED globals
  /\ UNCHANGED <<previewSection, exportSection, carrierModal, mappingSection,
                 carrierNameSelect, newCarrierInput, fileTypeSelect, mappingGrid>>
  /\ UNCHANGED <<history, counters, matcher>>

\* The response carries the upload's data.
uploadFileLoaded(i, recognized) ==
  /\ i \in Awaiting("/api/upload")
  /\ recognized \in Recognized(inflight[i].req.file)
  /\ LET data == uploadData(inflight[i].req.file, recognized)
         allCarriers == data.known_carriers \cup data.configured_carriers
     IN  /\ inflight' = Resume(i)
         /\ loading' = FALSE
         /\ currentColumns' = data.columns
         /\ savedFilename' = data.saved_filename
         /\ fileTypeSelect' = IF data.detected_file_type # ""
                              THEN data.detected_file_type ELSE fileTypeSelect
         /\ carrierNameSelect' = populateCarrierDropdown(allCarriers, data.recognized_carrier)
         /\ newCarrierInput' = <<>>
         /\ carrierModal' = TRUE
         \* currentFile.previewData = data throws on a null currentFile
         /\ IF currentFile = nullRef
            THEN /\ currentFile' = currentFile
                 /\ alerted' = [text |-> "Error uploading file: ", message |-> "TypeError"]
                 /\ event' = "uploadFile:TypeError"
            ELSE /\ currentFile' = [currentFile EXCEPT !.previewData = data]
                 /\ alerted' = NoAlert
                 /\ event' = "uploadFile:loaded"
         /\ uploaded' = uploaded \cup {data.saved_filename}
  /\ sent' = NoRequest
  /\ UNCHANGED <<carrierName, fileType, hasTransformer, availableOutputs, exportResults>>
  /\ UNCHANGED <<previewSection, exportSection, mappingSection, mappingGrid>>
  /\ UNCHANGED <<operatorMapping, confirmed, counters, matcher>>

\* The carrier select's onchange handler, the operator having chosen v.
carrierSelectChange(v) ==
  /\ carrierModal
  /\ v \in carrierNameSelect.options \cup {<<>>, NewOption}
  /\ v # carrierNameSelect.value
  /\ carrierNameSelect' = [carrierNameSelect EXCEPT !.value = v]
  /\ newCarrierInput' = IF v = NewOption THEN newCarrierInput ELSE <<>>
  /\ event' = "carrierSelectChange"
  /\ sent' = NoRequest
  /\ alerted' = NoAlert
  /\ UNCHANGED globals
  /\ UNCHANGED <<loading, previewSection, exportSection, carrierModal, mappingSection,
                 fileTypeSelect, mappingGrid>>
  /\ UNCHANGED <<inflight, history, counters, matcher>>


(***************************************************************************)
(* confirmCarrier, checkAvailableOutputs, showPreview                      *)
(***************************************************************************)
\* buildMappingUI: one select per template column, its options the source
\* columns, the option equal to findBestMatch's result selected.
buildMappingUI(columns) ==
  [ columns |-> columns,
    value |-> SubSeq([k \in 1..Len(templateColumns) |->
                        LET match == findBestMatch(templateColumns[k], columns)
                        IN  IF \E c \in 1..Len(columns) : columns[c] = match
                            THEN match ELSE <<>>],
                     1, Len(templateColumns)) ]

\* buildMappingUI on each upload's columns, computed once.
mappingGridOf ==
  (AcmeColumns :> buildMappingUI(AcmeColumns)) @@
  (BetaColumns :> buildMappingUI(BetaColumns))

\* showPreview(currentFile.previewData), hasT being hasTransformer when it
\* runs: a TypeError (nothing shown) on a null currentFile or on undefined
\* previewData.
showPreview(hasT) ==
  IF currentFile = nullRef
  THEN UNCHANGED <<previewSection, mappingSection, mappingGrid>>
  ELSE IF currentFile.previewData = undefinedRef
  THEN UNCHANGED <<previewSection, mappingSection, mappingGrid>>
  ELSE /\ previewSection' = TRUE
       /\ mappingSection' = (hasT # "true")
       /\ mappingGrid' = IF hasT = "true" THEN mappingGrid
                         ELSE mappingGridOf[currentFile.previewData.columns]

\* Whether showPreview(currentFile.previewData) throws.
showPreviewThrows ==
  IF currentFile = nullRef THEN TRUE ELSE currentFile.previewData = undefinedRef

\* The click on confirmCarrierBtn: confirmCarrier up to its fetch.  The
\* operator has typed `typed` when "add new" is selected, and leaves the file
\* type select as the upload set it.
confirmCarrier(typed) ==
  /\ carrierModal
  /\ nConfirms < MaxConfirms
  /\ nConfirms' = nConfirms + 1
  /\ IF carrierNameSelect.value = NewOption
     THEN typed \in TypedNames ELSE typed = newCarrierInput
  /\ newCarrierInput' = typed
  /\ fileType' = fileTypeSelect
  /\ carrierName' = IF carrierNameSelect.value = NewOption
                    THEN trim(typed) ELSE carrierNameSelect.value
  /\ IF ~Truthy(carrierName')
     THEN /\ alerted' = [text |-> IF carrierNameSelect.value = NewOption
                                  THEN "Please enter a carrier name"
                                  ELSE "Please select a carrier"]
          /\ sent' = NoRequest
          /\ inflight' = inflight
          /\ event' = "confirmCarrier:invalid"
     ELSE IF currentFile = nullRef
     \* currentFile.name throws while the request body is built
     THEN /\ alerted' = NoAlert
          /\ sent' = NoRequest
          /\ inflight' = inflight
          /\ event' = "confirmCarrier:TypeError"
     ELSE /\ alerted' = NoAlert
          /\ sent' = [ url |-> "/api/confirm-carrier",
                       carrier_name |-> carrierName',
                       saved_filename |-> savedFilename,
                       columns |-> currentColumns,
                       original_filename |-> currentFile.name,
                       file_type |-> fileTypeSelect ]
          /\ inflight' = Append(inflight, [await |-> "/api/confirm-carrier", req |-> sent'])
          /\ event' = "confirmCarrier"
  /\ UNCHANGED <<currentFile, currentColumns, savedFilename, hasTransformer,
                 availableOutputs, exportResults>>
  /\ UNCHANGED <<loading, previewSection, exportSection, carrierModal, mappingSection,
                 carrierNameSelect, fileTypeSelect, mappingGrid>>
  /\ UNCHANGED <<history, nUploads, nProcesses, nResets, nOverrides, matcher>>

\* The fetch or response.json() rejects: confirmCarrier has no catch, the
\* rejection is unhandled.
confirmCarrierRejected(i) ==
  /\ i \in Awaiting("/api/confirm-carrier")
  /\ inflight' = Resume(i)
  /\ event' = "confirmCarrier:rejected"
  /\ sent' = NoRequest
  /\ alerted' = NoAlert
  /\ UNCHANGED <<globals, page, history, counters, matcher>>

\* The response body is parsed: has is its has_transformer field, undefined
\* when the body carries an error instead.
confirmCarrierAnswered(i, has) ==
  /\ i \in Awaiting("/api/confirm-carrier")
  /\ has \in {"true", "false", "undefined"}
  /\ hasTransformer' = has
  /\ carrierModal' = FALSE
  /\ alerted' = NoAlert
  /\ confirmed' = IF has = "undefined" THEN confirmed
                  ELSE confirmed \cup {<<inflight[i].req.saved_filename,
                                         inflight[i].req.carrier_name>>}
  /\ IF has = "true"
     THEN \* checkAvailableOutputs up to its fetch
          /\ sent' = [ url |-> "/api/available-outputs",
                       saved_filename |-> savedFilename,
                       carrier_name |-> carrierName ]
          /\ inflight' = Append(Resume(i), [await |-> "/api/available-outputs", req |-> sent'])
          /\ event' = "confirmCarrier:checkAvailableOutputs"
          /\ UNCHANGED <<previewSection, mappingSection, mappingGrid>>
     ELSE /\ sent' = NoRequest
          /\ inflight' = Resume(i)
          /\ event' = IF has = "undefined" THEN "confirmCarrier:error"
                      ELSE "confirmCarrier:answered"
          /\ showPreview(has)
  /\ UNCHANGED <<currentFile, currentColumns, savedFilename, carrierName, fileType,
                 availableOutputs, exportResults>>
  /\ UNCHANGED <<loading, exportSection, carrierNameSelect, newCarrierInput, fileTypeSelect>>
  /\ UNCHANGED <<operatorMapping, uploaded, counters, matcher>>

\* checkAvailableOutputs: the fetch or response.json() rejects; the catch
\* block sets the default, and confirmCarrier goes on to showPreview.
checkAvailableOutputsCatch(i) ==
  /\ i \in Awaiting("/api/available-outputs")
  /\ inflight' = Resume(i)
  /\ availableOutputs' = <<[type |-> "commission", name |-> "Commission"]>>
  /\ showPreview(hasTransformer)
  /\ event' = "checkAvailableOutputs:catch"
  /\ sent' = NoRequest
  /\ alerted' = NoAlert
  /\ UNCHANGED <<currentFile, currentColumns, savedFilename, carrierName, fileType,
                 hasTransformer, exportResults>>
  /\ UNCHANGED <<loading, exportSection, carrierModal, carrierNameSelect,
                 newCarrierInput, fileTypeSelect>>
  /\ UNCHANGED <<history, counters, matcher>>

\* checkAvailableOutputs: the response is parsed; then showPreview.
checkAvailableOutputsAnswered(i, success, outputs) ==
  /\ i \in Awaiting("/api/available-outputs")
  /\ success \in BOOLEAN
  /\ outputs \in (IF success THEN OutputLists ELSE {<<>>})
  /\ inflight' = Resume(i)
  /\ availableOutputs' = IF success THEN outputs ELSE availableOutputs
  /\ showPreview(hasTransformer)
  /\ event' = IF success THEN "checkAvailableOutputs:success"
              ELSE "checkAvailableOutputs:failure"
  /\ sent' = NoRequest
  /\ alerted' = NoAlert
  /\ UNCHANGED <<currentFile, currentColumns, savedFilename, carrierName, fileType,
                 hasTransformer, exportResults>>
  /\ UNCHANGED <<loading, exportSection, carrierModal, carrierNameSelect,
                 newCarrierInput, fileTypeSelect>>
  /\ UNCHANGED <<history, counters, matcher>>

\* The operator changes the select of template column k to v.
mappingSelectChange(k, v) ==
  /\ previewSection /\ mappingSection
  /\ mappingGrid # NoGrid
  /\ nOverrides < MaxOverrides
  /\ nOverrides' = nOverrides + 1
  /\ k \in 1..MaxOverrideField
  /\ v \in {mappingGrid.columns[c] : c \in 1..Len(mappingGrid.columns)} \cup {<<>>}
  /\ v # mappingGrid.value[k]
  /\ mappingGrid' = [mappingGrid EXCEPT !.value[k] = v]
  /\ operatorMapping' = mappingGrid'.value
  /\ event' = "mappingSelectChange"
  /\ sent' = NoRequest
  /\ alerted' = NoAlert
  /\ UNCHANGED globals
  /\ UNCHANGED <<loading, previewSection, exportSection, carrierModal, mappingSection,
                 carrierNameSelect, newCarrierInput, fileTypeSelect>>
  /\ UNCHANGED <<inflight, uploaded, confirmed, nUploads, nConfirms, nProcesses,
                 nResets, matcher>>


(***************************************************************************)
(* processFile                                                             *)
(***************************************************************************)
\* The mappings object processFile collects from the grid's selects: one
\* entry <<target, source>> per select with a non-empty value.
columnMappings ==
  { <<templateColumns[k], mappingGrid.value[k]>> :
      k \in { j \in 1..Len(mappingGrid.value) : Truthy(mappingGrid.value[j]) } }

\* The session variables a processing attempt works on.
session == <<carrierName, fileType, hasTransformer, availableOutputs,
             savedFilename, currentColumns, exportResults>>

\* A processFile that collects the grid's mappings whether or not the carrier
\* has a transformer.
processFileMappingsAlways ==
  /\ previewSection
  /\ nProcesses < MaxProcesses
  /\ nProcesses' = nProcesses + 1
  /\ loading' = TRUE
  /\ previewSection' = FALSE
  /\ IF hasTransformer = "true" /\ Len(availableOutputs) > 0
     THEN sent' = [ url |-> "/api/process-all",
                    saved_filename |-> savedFilename,
                    carrier_name |-> carrierName,
                    output_types |-> [o \in 1..Len(availableOutputs) |->
                                        availableOutputs[o].type] ]
     ELSE sent' = [ url |-> "/api/process",
                    saved_filename |-> savedFilename,
                    carrier_name |-> carrierName,
                    file_type |-> fileType,
                    use_transformer |-> hasTransformer,
                    has_column_mappings |-> TRUE,
                    column_mappings |-> columnMappings ]
  /\ inflight' = Append(inflight, [await |-> sent'.url, req |-> sent',
                                   before |-> session])
  /\ event' = "processFile"
  /\ alerted' = NoAlert
  /\ UNCHANGED globals
  /\ UNCHANGED <<exportSection, carrierModal, mappingSection, carrierNameSelect,
                 newCarrierInput, fileTypeSelect, mappingGrid>>
  /\ UNCHANGED <<history, nUploads, nConfirms, nResets, nOverrides, matcher>>

\* The click on processBtn: processFile up to its fetch.  The suspended call
\* remembers (before) the session variables as they were at the click.
processFile ==
  /\ previewSection
  /\ nProcesses < MaxProcesses
  /\ nProcesses' = nProcesses + 1
  /\ loading' = TRUE
  /\ previewSection' = FALSE
  /\ IF hasTransformer = "true" /\ Len(availableOutputs) > 0
     THEN sent' = [ url |-> "/api/process-all",
                    saved_filename |-> savedFilename,
                    carrier_name |-> carrierName,
                    output_types |-> [o \in 1..Len(availableOutputs) |->
                                        availableOutputs[o].type] ]
     ELSE sent' = [ url |-> "/api/process",
                    saved_filename |-> savedFilename,
                    carrier_name |-> carrierName,
                    file_type |-> fileType,
                    use_transformer |-> hasTransformer,
                    has_column_mappings |-> (hasTransformer # "true"),
                    column_mappings |-> IF hasTransformer # "true"
                                        THEN columnMappings ELSE {} ]
  /\ inflight' = Append(inflight, [await |-> sent'.url, req |-> sent',
                                   before |-> session])
  /\ event' = "processFile"
  /\ alerted' = NoAlert
  /\ UNCHANGED globals
  /\ UNCHANGED <<exportSection, carrierModal, mappingSection, carrierNameSelect,
                 newCarrierInput, fileTypeSelect, mappingGrid>>
  /\ UNCHANGED <<history, nUploads, nConfirms, nResets, nOverrides, matcher>>

\* A catch block that leaves the preview hidden.
processFileCatchNoPreview(message) ==
  /\ loading' = FALSE
  /\ alerted' = [text |-> "Error processing file: ", message |-> message]
  /\ previewSection' = previewSection
  /\ UNCHANGED <<globals, exportSection>>

\* What the catch block of processFile does with the error's message.
processFileCatch(message) ==
  /\ loading' = FALSE
  /\ alerted' = [text |-> "Error processing file: ", message |-> message]
  /\ previewSection' = TRUE
  /\ UNCHANGED <<globals, exportSection>>

\* The fetch or response.json() rejects.
processFileRejected(i, message) ==
  /\ i \in Awaiting("/api/process") \cup Awaiting("/api/process-all")
  /\ message \in ErrorMessages
  /\ inflight' = Resume(i)
  /\ processFileCatch(message)
  /\ event' = "processFile:rejected"
  /\ sent' = NoRequest
  /\ UNCHANGED <<carrierModal, mappingSection, carrierNameSelect, newCarrierInput,
                 fileTypeSelect, mappingGrid>>
  /\ UNCHANGED <<history, counters, matcher>>

\* The response carries an error: it is thrown, and caught.
processFileError(i, message) ==
  /\ i \in Awaiting("/api/process") \cup Awaiting("/api/process-all")
  /\ message \in ErrorMessages
  /\ inflight' = Resume(i)
  /\ processFileCatch(message)
  /\ event' = "processFile:error"
  /\ sent' = NoRequest
  /\ UNCHANGED <<carrierModal, mappingSection, carrierNameSelect, newCarrierInput,
                 fileTypeSelect, mappingGrid>>
  /\ UNCHANGED <<history, counters, matcher>>

\* /api/process-all answers with its results, none when empty is TRUE:
\* showMultiExportSuccess.
processAllDone(i, empty) ==
  /\ i \in Awaiting("/api/process-all")
  /\ empty \in BOOLEAN
  /\ inflight' = Resume(i)
  /\ exportResults' = IF empty THEN <<>>
                      ELSE [o \in 1..Len(inflight[i].req.output_types) |->
                              [type |-> inflight[i].req.output_types[o],
                               filename |-> inflight[i].req.saved_filename]]
  /\ IF empty
     THEN /\ alerted' = [text |-> "No data to export"]
          /\ previewSection' = TRUE
          /\ exportSection' = exportSection
     ELSE /\ alerted' = NoAlert
          /\ previewSection' = previewSection
          /\ exportSection' = TRUE
  /\ loading' = FALSE
  /\ event' = "processFile:results"
  /\ sent' = NoRequest
  /\ UNCHANGED <<currentFile, currentColumns, savedFilename, carrierName, fileType,
                 hasTransformer, availableOutputs>>
  /\ UNCHANGED <<carrierModal, mappingSection, carrierNameSelect, newCarrierInput,
                 fileTypeSelect, mappingGrid>>
  /\ UNCHANGED <<history, counters, matcher>>

\* /api/process answers with one export: showSingleExportSuccess.
processDone(i) ==
  /\ i \in Awaiting("/api/process")
  /\ inflight' = Resume(i)
  /\ exportResults' = <<[type |-> fileType, filename |-> inflight[i].req.saved_filename]>>
  /\ exportSection' = TRUE
  /\ loading' = FALSE
  /\ event' = "processFile:export"
  /\ sent' = NoRequest
  /\ alerted' = NoAlert
  /\ UNCHANGED <<currentFile, currentColumns, savedFilename, carrierName, fileType,
                 hasTransformer, availableOutputs>>
  /\ UNCHANGED <<previewSection, carrierModal, mappingSection, carrierNameSelect,
                 newCarrierInput, fileTypeSelect, mappingGrid>>
  /\ UNCHANGED <<history, counters, matcher>>

(***************************************************************************)
(* resetUI                                                                 *)
(***************************************************************************)
resetUI ==
  /\ nResets < MaxResets
  /\ nResets' = nResets + 1
  /\ currentFile' = nullRef
  /\ currentColumns' = <<>>
  /\ savedFilename' = ""
  /\ carrierName' = <<>>
  /\ fileType' = "commission"
  /\ hasTransformer' = "false"
  /\ availableOutputs' = <<>>
  /\ exportResults' = <<>>
  /\ previewSection' = FALSE
  /\ exportSection' = FALSE
  /\ carrierModal' = FALSE
  /\ sent' = NoRequest
  /\ alerted' = NoAlert
  /\ operatorMapping' = NoOverride
  /\ uploaded' = {}
  /\ confirmed' = {}
  /\ UNCHANGED <<loading, mappingSection, carrierNameSelect, newCarrierInput,
                 fileTypeSelect, mappingGrid>>
  /\ UNCHANGED <<inflight, nUploads, nConfirms, nProcesses, nOverrides, matcher>>

\* The click on cancelBtn, in the preview section.
cancelBtn == previewSection /\ resetUI /\ event' = "cancelBtn"
\* The click on newUploadBtn, in the export section.
newUploadBtn == exportSection /\ resetUI /\ event' = "newUploadBtn"
\* The click on cancelCarrierBtn, in the carrier dialog.
cancelCarrierBtn == carrierModal /\ resetUI /\ event' = "cancelCarrierBtn"

Next ==
  \/ \E file \in Files : uploadFile(file)
  \/ \E i \in 1..Len(inflight), message \in ErrorMessages : uploadFileCatch(i, message)
  \/ \E i \in 1..Len(inflight), message \in ErrorMessages : uploadFileError(i, message)
  \/ \E i \in 1..Len(inflight), recognized \in {null, Acme, Beta} :
       uploadFileLoaded(i, recognized)
  \/ \E v \in {<<>>, Acme, NewOption} : carrierSelectChange(v)
  \/ \E typed \in TypedNames : confirmCarrier(typed)
  \/ \E i \in 1..Len(inflight) : confirmCarrierRejected(i)
  \/ \E i \in 1..Len(inflight), has \in {"true", "false", "undefined"} :
       confirmCarrierAnswered(i, has)
  \/ \E i \in 1..Len(inflight) : checkAvailableOutputsCatch(i)
  \/ \E i \in 1..Len(inflight), success \in BOOLEAN, outputs \in OutputLists :
       checkAvailableOutputsAnswered(i, success, outputs)
  \/ \E k \in 1..Len(templateColumns), v \in {<<>>} \cup
          {AcmeColumns[c] : c \in 1..Len(AcmeColumns)} \cup
          {BetaColumns[c] : c \in 1..Len(BetaColumns)} : mappingSelectChange(k, v)
  \/ processFile
  \/ \E i \in 1..Len(inflight), message \in ErrorMessages : processFileRejected(i, message)
  \/ \E i \in 1..Len(inflight), message \in ErrorMessages : processFileError(i, message)
  \/ \E i \in 1..Len(inflight), empty \in BOOLEAN : processAllDone(i, empty)
  \/ \E i \in 1..Len(inflight) : processDone(i)
  \/ cancelBtn
  \/ newUploadBtn
  \/ cancelCarrierBtn

Spec == Init /\ [][Next]_vars

(***************************************************************************)
(* findBestMatch called on its own, on any target and candidate list.      *)
(***************************************************************************)
Constructor == <<"c","o","n","s","t","r","u","c","t","o","r">>
\* Source column names: some of the uploads', an exact match of a template
\* column in another case, a short name, the empty name, a name only a later
\* synonym of PolicyNo matches, and a name that matches nothing.
CandidateNames ==
  { <<"P","o","l","i","c","y"," ","#">>,
    <<"F","i","r","s","t">>,
    <<"P","o","l","i","c","y","_","N","u","m","b","e","r">>,
    <<"A","g","e","n","t">>,
    <<"S","T","A","T","E">>,
    <<"S","t","a","t","e">>,
    <<"S","t">>,
    <<>>,
    <<"P","o","l","_","N","o">>,
    <<"Z","i","p">> }
RECURSIVE ListsUpTo(_)
ListsUpTo(n) ==
  IF n = 0 THEN {<<>>}
  ELSE ListsUpTo(n - 1) \cup
       {Append(l, c) : l \in {m \in ListsUpTo(n - 1) : Len(m) = n - 1}, c \in CandidateNames}
\* Target names: the template columns (all that buildMappingUI passes), one
\* of them in lower case, and one name that is no template column; every
\* target is a non-empty name.
Targets ==
  {templateColumns[k] : k \in 1..Len(templateColumns)} \cup
  {toLowerCase(templateColumns[1]), Constructor}

InitMatcher ==
  /\ currentFile = nullRef
  /\ currentColumns = <<>>
  /\ savedFilename = ""
  /\ carrierName = <<>>
  /\ fileType = "commission"
  /\ hasTransformer = "false"
  /\ availableOutputs = <<>>
  /\ exportResults = <<>>
  /\ loading = FALSE
  /\ previewSection = FALSE
  /\ exportSection = FALSE
  /\ carrierModal = FALSE
  /\ mappingSection = FALSE
  /\ carrierNameSelect = [options |-> {}, value |-> <<>>]
  /\ newCarrierInput = <<>>
  /\ fileTypeSelect = "commission"
  /\ mappingGrid = NoGrid
  /\ inflight = <<>>
  /\ event = "load"
  /\ sent = NoRequest
  /\ alerted = NoAlert
  /\ operatorMapping = NoOverride
  /\ uploaded = {}
  /\ confirmed = {}
  /\ nUploads = 0
  /\ nConfirms = 0
  /\ nProcesses = 0
  /\ nResets = 0
  /\ nOverrides = 0
  /\ matchTarget \in Targets
  /\ matchCandidates \in ListsUpTo(MaxCandidates) \cup {AcmeColumns}
  /\ matchResult = undefined

callFindBestMatch ==
  /\ event = "load"
  /\ matchResult' = findBestMatch(matchTarget, matchCandidates)
  /\ event' = "findBestMatch"
  /\ UNCHANGED <<globals, page, inflight, sent, alerted, history, counters>>
  /\ UNCHANGED <<matchTarget, matchCandidates>>

NextMatcher == callFindBestMatch

SpecMatcher == InitMatcher /\ [][NextMatcher]_vars


(***************************************************************************)
(* The claims.                                                             *)
(***************************************************************************)

\* C1: when a carrier without a transformer is confirmed for the upload with
\* columns "Policy #", "First", "Last", "Prem Amt", the mapping grid built by
\* buildMappingUI maps PolicyNo to "Policy #", PHFirst to "First", PHLast to
\* "Last", Premium to "Prem Amt", and no other template column.
C1_AutoMapping ==
  ( /\ event = "confirmCarrier:answered"
    /\ ~showPreviewThrows
    /\ mappingGrid.columns = AcmeColumns )
  => columnMappings =
       { <<<<"P","o","l","i","c","y","N","o">>, <<"P","o","l","i","c","y"," ","#">>>>,
         <<<<"P","H","F","i","r","s","t">>, <<"F","i","r","s","t">>>>,
         <<<<"P","H","L","a","s","t">>, <<"L","a","s","t">>>>,
         <<<<"P","r","e","m","i","u","m">>, <<"P","r","e","m"," ","A","m","t">>>> }

\* C2: a failed confirm-carrier step (the request rejects, or the body
\* carries an error and no has_transformer) is reported to the operator and
\* leaves the carrier dialog open; it never shows the preview with the manual
\* mapping as if the carrier had no transformer.
C2_ConfirmFailureReported ==
  event \in {"confirmCarrier:rejected", "confirmCarrier:error"}
  => /\ alerted # NoAlert
     /\ carrierModal
     /\ ~(previewSection /\ mappingSection /\ hasTransformer # "true")

\* C3: if some candidate equals the target case-insensitively, findBestMatch
\* returns the first such candidate in input order, whatever substring or
\* synonym match another candidate offers.
C3_ExactMatchFirst ==
  LET exactAt == { i \in 1..Len(matchCandidates) :
                     toLowerCase(matchCandidates[i]) = toLowerCase(matchTarget) }
  IN  (event = "findBestMatch" /\ exactAt # {})
      => matchResult = matchCandidates[CHOOSE i \in exactAt : \A j \in exactAt : i <= j]

\* C3 witness: the exact match "STATE" of target State is returned although
\* the earlier candidate "St" is a substring (and synonym) match.
C3_Witness ==
  /\ event = "findBestMatch"
  /\ matchTarget = <<"S","t","a","t","e">>
  /\ matchCandidates = <<<<"S","t">>, <<"S","T","A","T","E">>>>
  /\ matchResult = <<"S","T","A","T","E">>

\* C4: the column_mappings of every process request have template columns as
\* keys and, as values, source columns of the upload the request's
\* saved_filename identifies.
C4_MappingsWithinUpload ==
  (sent.url = "/api/process" /\ sent.has_column_mappings)
  => \A m \in sent.column_mappings :
       /\ \E k \in 1..Len(templateColumns) : templateColumns[k] = m[1]
       /\ \E c \in 1..Len(ColumnsOfSaved(sent.saved_filename)) :
            ColumnsOfSaved(sent.saved_filename)[c] = m[2]

\* C5: once the operator has overridden the mapping, the column_mappings of
\* the next process request are the operator's mapping: each template column
\* with the source column the operator left selected, and no other.
C5_OverridePassedThrough ==
  (sent.url = "/api/process" /\ sent.has_column_mappings /\ operatorMapping # NoOverride)
  => sent.column_mappings =
       { <<templateColumns[k], operatorMapping[k]>> :
           k \in { j \in 1..Len(operatorMapping) : operatorMapping[j] # <<>> } }

\* C6: after a failed availability check (the request throws, or the response
\* reports success = false) the resolved outputs are exactly the one default
\* commission output.
C6_AvailabilityFallback ==
  event \in {"checkAvailableOutputs:catch", "checkAvailableOutputs:failure"}
  => availableOutputs = <<[type |-> "commission", name |-> "Commission"]>>

\* C7: a process request follows a completed confirmation of the same saved
\* file and carrier, a confirm-carrier request follows the completed upload of
\* its saved file, and at most one upload, confirmation or processing is in
\* flight at any time.
C7_StrictlySequenced ==
  /\ sent.url \in {"/api/process", "/api/process-all"}
     => <<sent.saved_filename, sent.carrier_name>> \in confirmed
  /\ sent.url = "/api/confirm-carrier" => sent.saved_filename \in uploaded
  /\ Len(inflight) <= 1

\* C8: no confirm-carrier request carries an empty carrier_name; a click on
\* confirm with no carrier selected, or with "add new" selected and a name of
\* spaces only, sends no request, leaves the carrier dialog open and does not
\* show the preview.
C8_NoEmptyCarrierName ==
  /\ [](sent.url = "/api/confirm-carrier" => sent.carrier_name # <<>>)
  /\ [][ ( /\ nConfirms' = nConfirms + 1
           /\ \/ carrierNameSelect.value = <<>>
              \/ /\ carrierNameSelect.value = NewOption
                 /\ \A c \in 1..Len(newCarrierInput') : newCarrierInput'[c] = " " )
         => ( /\ sent' = NoRequest
              /\ inflight' = inflight
              /\ alerted' # NoAlert
              /\ carrierModal'
              /\ previewSection' = previewSection ) ]_vars

\* C8 witness: a click on confirm with "add new" selected and a name of one
\* space was refused.
C8_Witness ==
  /\ event = "confirmCarrier:invalid"
  /\ carrierNameSelect.value = NewOption
  /\ newCarrierInput = <<" ">>
  /\ carrierModal

\* C9: when a process or process-all attempt fails (the request rejects or
\* the response carries an error), the operator is shown the error's
\* message, the preview is shown again, and carrierName, fileType,
\* hasTransformer, availableOutputs, savedFilename, currentColumns and
\* exportResults have the values they had when the attempt was started.
C9_ProcessFailureKeepsSession ==
  [][ \A i \in Awaiting("/api/process") \cup Awaiting("/api/process-all") :
        ( /\ inflight' = Resume(i)
          /\ event' \in {"processFile:rejected", "processFile:error"} )
        => /\ alerted' = [text |-> "Error processing file: ", message |-> "boom"]
           /\ previewSection'
           /\ session' = inflight[i].before ]_vars

\* C10: for any target and any candidate list in which no candidate is an
\* exact, substring or synonym match, findBestMatch returns null (and does
\* not throw).
C10_NoMatchReturnsNull ==
  LET target == toLowerCase(matchTarget)
      synonyms == IF \E k \in 1..Len(mappings) : mappings[k][1] = target
                  THEN mappings[CHOOSE k \in 1..Len(mappings) : mappings[k][1] = target][2]
                  ELSE <<>>
      matches(col) ==
        \/ col = target
        \/ includes(col, target)
        \/ includes(target, col)
        \/ \E s \in 1..Len(synonyms) : includes(col, synonyms[s])
  IN  ( /\ event = "findBestMatch"
        /\ \A i \in 1..Len(matchCandidates) : ~matches(toLowerCase(matchCandidates[i])) )
      => matchResult = null

\* The candidates, by index, that equal the target case-insensitively.
\* (Used by the claims about findBestMatch only.)
C_ExactAt ==
  { i \in 1..Len(matchCandidates) :
      toLowerCase(matchCandidates[i]) = toLowerCase(matchTarget) }

\* The candidates, by index, that contain the target or are contained in it,
\* case-insensitively.
C_SubstringAt ==
  { i \in 1..Len(matchCandidates) :
      \/ includes(toLowerCase(matchCandidates[i]), toLowerCase(matchTarget))
      \/ includes(toLowerCase(matchTarget), toLowerCase(matchCandidates[i])) }

\* C11: when no candidate is an exact match and some candidate is a substring
\* match (either way, case-insensitively), findBestMatch returns the first
\* substring-matching candidate in input order, the empty string included,
\* and no synonym rule decides the result.
C11_FirstSubstringMatch ==
  (event = "findBestMatch" /\ C_ExactAt = {} /\ C_SubstringAt # {})
  => matchResult =
       matchCandidates[CHOOSE i \in C_SubstringAt : \A j \in C_SubstringAt : i <= j]

\* C12: when no candidate is an exact or substring match and the target has
\* synonyms in the table, the result is decided synonym by synonym in table
\* order: for the first synonym that some candidate contains, the first such
\* candidate in input order.  Target policyno with candidates
\* "Policy_Number", "Agent" gives "Policy_Number".
C12_SynonymOrder ==
  LET target == toLowerCase(matchTarget)
      rows == { r \in 1..Len(mappings) : mappings[r][1] = target }
      synonyms == mappings[CHOOSE r \in rows : TRUE][2]
      hits(k) == { i \in 1..Len(matchCandidates) :
                    includes(toLowerCase(matchCandidates[i]), synonyms[k]) }
  IN  /\ ( /\ event = "findBestMatch"
          /\ C_ExactAt = {} /\ C_SubstringAt = {}
          /\ rows # {} )
        => \A k \in 1..Len(synonyms) :
             (hits(k) # {} /\ \A j \in 1..(k - 1) : hits(j) = {})
             => matchResult =
                  matchCandidates[CHOOSE i \in hits(k) : \A h \in hits(k) : i <= h]
      /\ ( /\ event = "findBestMatch"
          /\ matchTarget = <<"p","o","l","i","c","y","n","o">>
          /\ matchCandidates = BetaColumns )
        => matchResult = <<"P","o","l","i","c","y","_","N","u","m","b","e","r">>

\* C12 witness: the first synonym of PolicyNo, "policy", matches the later
\* candidate "Policy #" and wins over the later synonym "pol_no", which
\* matches the earlier candidate "Pol_No".
C12_Witness ==
  /\ event = "findBestMatch"
  /\ matchTarget = <<"P","o","l","i","c","y","N","o">>
  /\ matchCandidates = << <<"P","o","l","_","N","o">>, <<"P","o","l","i","c","y"," ","#">> >>
  /\ matchResult = <<"P","o","l","i","c","y"," ","#">>

\* C19: whatever findBestMatch returns is null or a non-empty string that is
\* one of the candidates, exactly as the candidate is written; it never
\* returns the empty string or a string that is no candidate.
C19_ResultIsNullOrCandidate ==
  (event = "findBestMatch" /\ matchResult # TypeError)
  => \/ matchResult = null
     \/ /\ matchResult # <<>>
        /\ \E i \in 1..Len(matchCandidates) : matchCandidates[i] = matchResult

\* C19 witness: with the empty string as the earliest substring match, the
\* result is the non-empty candidate a synonym of State finds.
C19_Witness ==
  /\ event = "findBestMatch"
  /\ matchTarget = <<"S","t","a","t","e">>
  /\ matchCandidates = << <<>>, <<"S","t">> >>
  /\ matchResult = <<"S","t">>

\* C13: when the availability check succeeds with no applicable output, the
\* resolved output list is empty, no error is raised or reported and the
\* preview is shown; a process click of a transformer-bearing carrier with
\* no outputs sends one /api/process request with use_transformer true and
\* no column_mappings.
C13_ZeroOutputs ==
  /\ (event = "checkAvailableOutputs:success" /\ availableOutputs = <<>>)
     => /\ alerted = NoAlert
        /\ ~showPreviewThrows
        /\ previewSection
  /\ (event = "processFile" /\ hasTransformer = "true" /\ availableOutputs = <<>>)
     => /\ sent.url = "/api/process"
        /\ sent.use_transformer = "true"
        /\ ~sent.has_column_mappings

\* The session variables as the script initializes them.
InitialGlobals ==
  <<nullRef, <<>>, "", <<>>, "commission", "false", <<>>, <<>>>>

\* C14: after resetUI (from the cancel, new-upload or cancel-carrier button)
\* every session variable has its initial value, and keeps it through every
\* step that is not the start of an upload, late responses included.
C14_ResetStaysReset ==
  /\ [](event \in {"cancelBtn", "newUploadBtn", "cancelCarrierBtn"}
          => globals = InitialGlobals)
  /\ [][ (globals = InitialGlobals /\ event' # "uploadFile")
          => globals' = InitialGlobals ]_vars

\* C15: when an upload's request completes, the loading indicator is hidden
\* and the carrier dialog is open or an error was reported; when a process
\* request completes, the loading indicator is hidden and the export section
\* or the preview section is shown.
C15_CompletedOperationUsable ==
  /\ event \in {"uploadFile:loaded", "uploadFile:TypeError",
                "uploadFile:error", "uploadFile:catch"}
     => /\ ~loading
        /\ carrierModal \/ alerted # NoAlert
  /\ event \in {"processFile:rejected", "processFile:error",
                "processFile:results", "processFile:export"}
     => /\ ~loading
        /\ exportSection \/ previewSection

\* C15 witness: a process-all request answered with no results: "No data to
\* export" is reported and the preview is shown again, the loading
\* indicator hidden.
C15_Witness ==
  /\ event = "processFile:results"
  /\ alerted = [text |-> "No data to export"]
  /\ previewSection
  /\ ~exportSection
  /\ ~loading

\* C16: a click on process sends one request: /api/process-all, with the
\* types of availableOutputs in their order, exactly when hasTransformer is
\* true and availableOutputs is not empty; otherwise /api/process, which
\* carries column_mappings exactly when hasTransformer is not true; no
\* request has use_transformer true together with column_mappings.
C16_ProcessingPaths ==
  /\ event = "processFile"
     => /\ sent.url \in {"/api/process", "/api/process-all"}
        /\ sent.url = "/api/process-all"
             <=> (hasTransformer = "true" /\ availableOutputs # <<>>)
        /\ sent.url = "/api/process-all"
             => sent.output_types =
                  [o \in 1..Len(availableOutputs) |-> availableOutputs[o].type]
        /\ sent.url = "/api/process"
             => /\ sent.has_column_mappings <=> (hasTransformer # "true")
                /\ sent.use_transformer = hasTransformer
                /\ ~(sent.use_transformer = "true" /\ sent.has_column_mappings)
        /\ { i \in 1..Len(inflight) : inflight[i].req = sent } # {}
  /\ sent.url \in {"/api/process", "/api/process-all"} => event = "processFile"

\* C16 witness: a process-all request carrying two output types in the
\* order of availableOutputs.
C16_Witness ==
  /\ event = "processFile"
  /\ sent.url = "/api/process-all"
  /\ sent.output_types = <<"commission", "chargeback">>

\* C17: when an upload response carries a recognized carrier, the carrier
\* dialog opens with that carrier selected, whether or not the name is among
\* the known or configured carriers.
C17_RecognizedPreselected ==
  (event = "uploadFile:loaded" /\ Truthy(currentFile.previewData.recognized_carrier))
  => /\ carrierModal
     /\ carrierNameSelect.value = currentFile.previewData.recognized_carrier

\* C18: once the uploads of two files have both been answered and no upload
\* is in flight any more, savedFilename, currentColumns,
\* currentFile.name and currentFile.previewData describe one upload, and a
\* confirm-carrier request sent then names one upload: its saved_filename
\* and its columns are those the server answered for the file named by its
\* original_filename, whatever the order of the responses of overlapping
\* uploads.
C18_ConfirmNamesOneUpload ==
  ( /\ sent.url = "/api/confirm-carrier"
    /\ Awaiting("/api/upload") = {}
    /\ uploaded = {uploadData(f, null).saved_filename : f \in Files} )
  => /\ currentFile.previewData # undefinedRef
     /\ currentFile.previewData.filename = currentFile.name
     /\ savedFilename = uploadData(currentFile.name, null).saved_filename
     /\ currentColumns = uploadData(currentFile.name, null).columns
     /\ sent.saved_filename = uploadData(sent.original_filename, null).saved_filename
     /\ sent.columns = uploadData(sent.original_filename, null).columns

=============================================================================
